---- MODULE Spec2Model ----
(***************************************************************************)
(* TwitchNoSub DVR: the segment timeline tracker (dvr-tracker.js) and the  *)
(* live <-> VOD arbitration controller (dvr-controller.js).                *)
(*                                                                         *)
(* Times of the tracker are milliseconds (Date.now()).  Times of the       *)
(* native player and of the stream are centiseconds, so that               *)
(* elapsed * percent / 100 stays an integer.                               *)
(***************************************************************************)
EXTENDS Integers, Sequences, FiniteSets, TLC

VARIABLES
    dvr,   \* window.TNS_DVR: the DVRController, its tracker, and the page
           \* objects it drives (native video element, overlay, timers,
           \* requests in flight)
    now    \* Date.now(), milliseconds

vars == <<dvr, now>>

----------------------------------------------------------------------------
(* Bounds of the model *)

MaxSegments == 2          \* segments retained at once
MaxLines == 2             \* lines of one manifest
MaxPending == 1           \* requests of one kind in flight at once
MaxWaits == 1             \* waitForPlayer calls alive at once
MaxLeaked == 1            \* scheduled refresh timers no field holds
MaxListeners == 2         \* listeners registered through on()
MaxEntries == 2           \* entries (#EXTINF line and locator) of a manifest
MaxDiscoveries == 2       \* waitForPlayer calls alive at once where their
                          \* interference is studied

----------------------------------------------------------------------------
(* DVRTracker: configuration and values *)

maxBufferDuration == 4 * 60 * 60 * 1000
segmentDuration == 2000
CanSeekBackFloor == 5000

\* null of a numeric field
Null == -1

\* null of a string field
NoName == "null"

\* the instants the clock is observed at: the page load, 3 s later, and
\* both again one retention window later
Instants == { 1000, 1000 + 3000, 1000 + maxBufferDuration,
              1000 + 3000 + maxBufferDuration }
\* the instant of the page load
FirstInstant == CHOOSE t \in Instants : \A u \in Instants : t <= u

Channels == {"a", "b"}
Bases == {"b1"}
Names == {"s1", "s2"}
\* a resolved segment url: the directory of the playlist and the file name
Urls == Bases \X Names

\* the keys of this.listeners
Events == { "segmentAdded", "timelineUpdated", "streamStarted", "streamEnded",
            "seekAvailable" }

\* DVRTracker.constructor.  listeners[e] holds, for each callback in the
\* order of registration, whether it throws when called.  emitted and
\* invoked are the history of the last call of a tracker method: the events
\* it emitted and the callbacks it invoked, as <<event, index>>.
TrackerInit ==
    [ isLive |-> FALSE,
      channelName |-> NoName,
      streamStartTime |-> Null,
      segments |-> << >>,
      currentSegmentIndex |-> -1,
      earliestAvailableTime |-> Null,
      latestAvailableTime |-> Null,
      listeners |-> [e \in Events |-> << >>],
      emitted |-> << >>,
      invoked |-> << >> ]

isEnabled == TRUE

\* the history of the last call, forgotten when the next one begins
Quiet(t) == [t EXCEPT !.emitted = << >>, !.invoked = << >>]

\* DVRTracker.on
on(t, event, throws) ==
    IF event \in Events
    THEN [t EXCEPT !.listeners[event] = Append(@, throws)]
    ELSE t

\* the callbacks forEach reaches when the first exception leaves it
RECURSIVE UntilThrow(_, _, _)
UntilThrow(event, callbacks, i) ==
    IF i > Len(callbacks) THEN << >>
    ELSE IF callbacks[i] THEN << <<event, i>> >>
    ELSE << <<event, i>> >> \o UntilThrow(event, callbacks, i + 1)

\* emit without the try/catch around callback(data)
emitUncaught(t, event) ==
    IF event \in Events
    THEN [t EXCEPT !.emitted = Append(@, event),
                   !.invoked = @ \o UntilThrow(event, t.listeners[event], 1)]
    ELSE t

\* DVRTracker.emit
emit(t, event) ==
    IF event \in Events
    THEN [t EXCEPT !.emitted = Append(@, event),
                   !.invoked = @ \o [i \in 1..Len(t.listeners[event]) |->
                                        <<event, i>>]]
    ELSE t

\* DVRTracker.emitTimelineUpdate
emitTimelineUpdate(t) == emit(t, "timelineUpdated")

\* DVRTracker.reset
reset(t) ==
    [ t EXCEPT !.segments = << >>,
               !.currentSegmentIndex = -1,
               !.streamStartTime = Null,
               !.earliestAvailableTime = Null,
               !.latestAvailableTime = Null,
               !.channelName = NoName,
               !.isLive = FALSE ]

\* DVRTracker.startTracking
startTracking(t, channelName, clock) ==
    emit([ reset(t) EXCEPT !.isLive = TRUE,
                           !.channelName = channelName,
                           !.streamStartTime = clock,
                           !.earliestAvailableTime = clock,
                           !.latestAvailableTime = clock ],
         "streamStarted")

\* DVRTracker.stopTracking
stopTracking(t) ==
    [ (IF t.isLive THEN emit(t, "streamEnded") ELSE t) EXCEPT !.isLive = FALSE ]

\* Array.prototype.filter on the segment list
RECURSIVE FilterSegs(_, _)
FilterSegs(segs, cutoffTime) ==
    IF segs = << >> THEN << >>
    ELSE IF Head(segs).timestamp > cutoffTime
         THEN <<Head(segs)>> \o FilterSegs(Tail(segs), cutoffTime)
         ELSE FilterSegs(Tail(segs), cutoffTime)

\* cleanupOldSegments without the recomputation of earliestAvailableTime
cleanupKeepsEarliest(t, clock) ==
    [ t EXCEPT !.segments = FilterSegs(t.segments, clock - maxBufferDuration) ]

\* DVRTracker.cleanupOldSegments
cleanupOldSegments(t, clock) ==
    LET cutoffTime == clock - maxBufferDuration
        kept == FilterSegs(t.segments, cutoffTime)
    IN  [ t EXCEPT !.segments = kept,
                   !.earliestAvailableTime =
                       IF Len(kept) > 0 THEN kept[1].timestamp
                       ELSE t.earliestAvailableTime ]

\* a falsy number of JavaScript: 0 (NaN is kept as 0 in this model)
Falsy(n) == n = 0 \/ n = Null

\* addSegment without its test of isLive and isEnabled
addSegmentAlways(t, segmentInfo, clock) ==
    LET segment ==
            [ url |-> segmentInfo.url,
              timestamp |-> clock,
              duration |-> IF Falsy(segmentInfo.duration)
                           THEN segmentDuration ELSE segmentInfo.duration,
              sequence |-> IF Falsy(segmentInfo.sequence)
                           THEN Len(t.segments) ELSE segmentInfo.sequence ]
        pushed == [ t EXCEPT !.segments = Append(t.segments, segment),
                             !.latestAvailableTime =
                                 segment.timestamp + segment.duration ]
    IN  emitTimelineUpdate(emit(cleanupOldSegments(pushed, clock),
                                "segmentAdded"))

\* addSegment that puts the new segment first (unshift for push)
addSegmentFront(t, segmentInfo, clock) ==
    IF ~t.isLive \/ ~isEnabled THEN t
    ELSE
        LET segment ==
                [ url |-> segmentInfo.url,
                  timestamp |-> clock,
                  duration |-> IF Falsy(segmentInfo.duration)
                               THEN segmentDuration ELSE segmentInfo.duration,
                  sequence |-> IF Falsy(segmentInfo.sequence)
                               THEN Len(t.segments) ELSE segmentInfo.sequence ]
            pushed == [ t EXCEPT !.segments = <<segment>> \o t.segments,
                                 !.latestAvailableTime =
                                     segment.timestamp + segment.duration ]
        IN  emitTimelineUpdate(emit(cleanupOldSegments(pushed, clock),
                                    "segmentAdded"))

\* DVRTracker.addSegment; segmentInfo = [url, duration, sequence]
addSegment(t, segmentInfo, clock) ==
    IF ~t.isLive \/ ~isEnabled THEN t
    ELSE
        LET segment ==
                [ url |-> segmentInfo.url,
                  timestamp |-> clock,
                  duration |-> IF Falsy(segmentInfo.duration)
                               THEN segmentDuration ELSE segmentInfo.duration,
                  sequence |-> IF Falsy(segmentInfo.sequence)
                               THEN Len(t.segments) ELSE segmentInfo.sequence ]
            pushed == [ t EXCEPT !.segments = Append(t.segments, segment),
                                 !.latestAvailableTime =
                                     segment.timestamp + segment.duration ]
        IN  emitTimelineUpdate(emit(cleanupOldSegments(pushed, clock),
                                    "segmentAdded"))

\* DVRTracker.getBufferDuration
getBufferDuration(t) ==
    IF Falsy(t.earliestAvailableTime) \/ Falsy(t.latestAvailableTime) THEN 0
    ELSE t.latestAvailableTime - t.earliestAvailableTime

\* canSeekBack with the floor included
canSeekBackInclusive(t) ==
    Len(t.segments) > 1 /\ getBufferDuration(t) >= CanSeekBackFloor

\* DVRTracker.canSeekBack
canSeekBack(t) ==
    Len(t.segments) > 1 /\ getBufferDuration(t) > CanSeekBackFloor

\* A percentage is kept exact, as the pair <<numerator, denominator>> in
\* lowest terms of the quotient the code computes in floating point.

RECURSIVE Gcd(_, _)
Gcd(a, b) == IF b = 0 THEN a ELSE Gcd(b, a % b)

Abs(n) == IF n < 0 THEN -n ELSE n

Fraction(n, d) ==
    LET g == Gcd(Abs(n), Abs(d))
    IN  IF d < 0 THEN <<(-n) \div g, (-d) \div g>> ELSE <<n \div g, d \div g>>

\* <<quotient, remainder>> of a * b by c, for a, b >= 0 and c > 0, by
\* doubling, so that no intermediate product leaves the integers TLC has
RECURSIVE MulDiv(_, _, _)
MulDiv(a, b, c) ==
    IF b = 0 THEN <<0, 0>>
    ELSE LET half == MulDiv(a, b \div 2, c)
             q2 == (2 * half[1]) + ((2 * half[2]) \div c)
             r2 == (2 * half[2]) % c
         IN  IF b % 2 = 0 THEN <<q2, r2>>
             ELSE <<q2 + (a \div c) + ((r2 + (a % c)) \div c),
                    (r2 + (a % c)) % c>>

\* DVRTracker.getPositionPercentage
getPositionPercentage(t, currentTimestamp) ==
    LET duration == getBufferDuration(t)
        position == currentTimestamp -
                    (IF t.earliestAvailableTime = Null THEN 0
                     ELSE t.earliestAvailableTime)
        above == IF duration > 0 THEN position > duration
                 ELSE position < duration
        below == IF duration > 0 THEN position < 0 ELSE position > 0
    IN  IF duration = 0 THEN <<100, 1>>
        ELSE IF below THEN <<0, 1>>
        ELSE IF above THEN <<100, 1>>
        ELSE Fraction(position * 100, duration)

\* duration * percentage / 100 for a duration >= 0, to the millisecond
Scale(duration, percentage) ==
    IF percentage[1] < 0
    THEN 0 - MulDiv(duration, 0 - percentage[1], percentage[2] * 100)[1]
    ELSE MulDiv(duration, percentage[1], percentage[2] * 100)[1]

\* getTimestampFromPercentage measured from streamStartTime
getTimestampFromStart(t, percentage) ==
    t.streamStartTime + Scale(Abs(getBufferDuration(t)), percentage)

\* DVRTracker.getTimestampFromPercentage, to the millisecond
getTimestampFromPercentage(t, percentage) ==
    (IF t.earliestAvailableTime = Null THEN 0 ELSE t.earliestAvailableTime) +
        Scale(Abs(getBufferDuration(t)), percentage)

----------------------------------------------------------------------------
(* Playlist ingest.  A manifest is a sequence of lines; a line is          *)
(*   [kind |-> "SEQ", n]       #EXT-X-MEDIA-SEQUENCE:n                     *)
(*   [kind |-> "EXTINF", d]    #EXTINF:<d>; d is the parsed duration in    *)
(*                             ms, NoMatch when the text after the colon   *)
(*                             does not match [\d.]+                       *)
(*   [kind |-> "URI", abs, base, name]  a line ending in .ts; abs tells    *)
(*                             whether it starts with http                 *)
(*   [kind |-> "BADURI"]       a line ending in .ts that does not start    *)
(*                             with http and that new URL(line, baseUrl)   *)
(*                             rejects, such as //a b/s.ts                 *)
(***************************************************************************)

NoMatch == -2

Lines ==
    [kind : {"SEQ"}, n : {1}]
    \cup [kind : {"EXTINF"}, d : {4000, NoMatch}]
    \cup [kind : {"URI"}, abs : {FALSE}, base : Bases, name : Names]
    \cup [kind : {"URI"}, abs : {TRUE}, base : Bases, name : {"s1"}]

Manifests == UNION { [1..n -> Lines] : n \in 1..MaxLines }

\* manifests with malformed lines among well-formed ones
MalformedLines ==
    [kind : {"EXTINF"}, d : {4000, NoMatch}]
    \cup [kind : {"URI"}, abs : {FALSE}, base : Bases, name : Names]
    \cup [kind : {"BADURI"}]

MalformedManifests == UNION { [1..n -> MalformedLines] : n \in 1..MaxLines }

\* line.startsWith('http') ? line : new URL(line, baseUrl).href
ResolveUrl(line, baseUrl) ==
    IF line.abs THEN <<line.base, line.name>> ELSE <<baseUrl, line.name>>

\* playlistContent.match(/#EXT-X-MEDIA-SEQUENCE:(\d+)/): the first header
RECURSIVE FirstSequence(_)
FirstSequence(lines) ==
    IF lines = << >> THEN 0
    ELSE IF Head(lines).kind = "SEQ" THEN Head(lines).n
         ELSE FirstSequence(Tail(lines))

\* a find that never finds
HasUrlNever(segs, url) == \E i \in 1..Len(segs) : segs[i].url = url /\ FALSE

HasUrl(segs, url) == \E i \in 1..Len(segs) : segs[i].url = url

\* the for loop of DVRTracker.processPlaylist, from line i on
RECURSIVE PlaylistLoop(_, _, _, _, _, _, _)
PlaylistLoop(t, lines, i, currentDuration, sequence, baseUrl, clock) ==
    IF i > Len(lines) THEN t
    ELSE
        LET line == lines[i] IN
        IF line.kind = "EXTINF"
        THEN PlaylistLoop(t, lines, i + 1,
                          IF line.d = NoMatch THEN currentDuration ELSE line.d,
                          sequence, baseUrl, clock)
        ELSE IF line.kind = "URI"
        THEN LET segmentUrl == ResolveUrl(line, baseUrl)
                 t2 == IF HasUrl(t.segments, segmentUrl) THEN t
                       ELSE addSegment(t,
                                [ url |-> segmentUrl,
                                  duration |-> IF Falsy(currentDuration)
                                               THEN segmentDuration
                                               ELSE currentDuration,
                                  sequence |-> sequence ],
                                clock)
             IN  PlaylistLoop(t2, lines, i + 1, currentDuration,
                              sequence + 1, baseUrl, clock)
        ELSE IF line.kind = "BADURI"
        THEN t    \* new URL throws a TypeError, which ends processPlaylist
        ELSE PlaylistLoop(t, lines, i + 1, currentDuration, sequence,
                          baseUrl, clock)

\* DVRTracker.processPlaylist
processPlaylist(t, playlistContent, baseUrl, clock) ==
    IF ~t.isLive \/ ~isEnabled THEN t
    ELSE PlaylistLoop(t, playlistContent, 1, 0,
                      FirstSequence(playlistContent), baseUrl, clock)



----------------------------------------------------------------------------
(* DVRController and the page it runs in.                                  *)
(*                                                                         *)
(* One record holds the controller's fields, its tracker, the native       *)
(* video element (muted, currentTime, buffered), the overlay's embed       *)
(* container, the timers that are scheduled and the requests in flight.    *)
(* calls, pct and elapsed are the history of the last handler: the calls   *)
(* it made (what console.log and the page would show) and, for a seek,     *)
(* the percentage asked for and the elapsed time it read; evicted and      *)
(* ingested are the history of the last tracker call.                      *)
(***************************************************************************)

VodIds == {"v1", "v2"}
\* the recording of a channel's current broadcast
VodOf(channel) == IF channel = "a" THEN "v1" ELSE "v2"

Pages == Channels \cup {"directory"}
\* the pages of a viewer who watches channel a or leaves it
ViewerPages == {"a", "directory"}

\* percentages the seek bar reports, elapsed stream times (seconds) and
\* buffered ranges of the native player (centiseconds)
Percents == {50, 96, 98, 99, 100}
Elapsed == {100, 3600}
Buffers == { << >>, <<1000, 9000>> }

NearLivePercent == 98
NearLiveCs == 500
LeadInCs == 500

Max(a, b) == IF a > b THEN a ELSE b

\* DVRController.constructor, with the tracker initialize() creates
ControllerInit ==
    [ tracker |-> on(on(TrackerInit, "streamStarted", FALSE),
                     "streamEnded", FALSE),
      isActive |-> FALSE,
      currentChannel |-> NoName,
      streamStartTime |-> Null,
      currentVodId |-> NoName,
      updateInterval |-> FALSE,        \* a scheduled 250 ms timer is held
      vodRefreshInterval |-> FALSE,    \* a scheduled 30 s timer is held
      leakedRefresh |-> 0,             \* scheduled 30 s timers no field holds
      waits |-> << >>,                 \* waitForPlayer calls still alive;
                                       \* playerCheckInterval is the last one
      vodOverlay |-> "null",           \* "null", or the overlay's display
      vodPlayer |-> NoName,            \* the Twitch.Embed made for a video
      lastVodId |-> NoName,
      isWatchingVod |-> FALSE,
      playerElement |-> FALSE,         \* the video element was found
      enabled |-> TRUE,                \* settings.enabled
      \* the page
      location |-> "directory",
      containerInDom |-> FALSE,        \* .video-player__container exists
      videoInDom |-> FALSE,            \* a <video> exists
      embedApi |-> FALSE,              \* window.Twitch.Embed is loaded
      embed |-> "none",                \* content of #tns-vod-embed
      overlays |-> 0,                  \* #tns-vod-overlay elements in the
                                       \* document
      players |-> 0,                   \* players inside #tns-vod-embed
      muted |-> FALSE,
      currentTime |-> 0,
      buffered |-> << >>,
      \* requests in flight
      pendingPage |-> << >>,           \* checkStreamInfo of checkCurrentPage
      pendingRefresh |-> << >>,        \* checkStreamInfo of the 30 s timer
      pendingSeeks |-> << >>,          \* switchToVod awaiting refreshVodInfo
      \* history of the last handler
      calls |-> {},
      pct |-> 0,
      elapsed |-> 0,
      evicted |-> 0,
      ingested |-> {},
      nominal |-> {},
      \* what the last handler gave the seek bar: the argument of
      \* ui.updateProgress and the text handlePreview returned
      snapshot |-> [position |-> <<100, 1>>, isAtLive |-> FALSE,
                    isWatchingVod |-> FALSE],
      label |-> [text |-> "", vod |-> FALSE] ]

Begin(s) ==
    [s EXCEPT !.calls = {}, !.pct = 0, !.elapsed = 0, !.evicted = 0,
              !.ingested = {}, !.nominal = {}, !.tracker = Quiet(@),
              !.snapshot = [position |-> <<100, 1>>, isAtLive |-> FALSE,
                            isWatchingVod |-> FALSE],
              !.label = [text |-> "", vod |-> FALSE]]
Call(s, what) == [s EXCEPT !.calls = @ \cup {what}]

\* DVRController.getElapsedTime; sinceStart is
\* Math.floor((Date.now() - streamStartTime) / 1000)
getElapsedTime(s, sinceStart) ==
    IF s.streamStartTime = Null THEN 0 ELSE sinceStart

\* DVRController.getBufferInfo
getBufferInfo(s) ==
    IF ~s.playerElement
    THEN [start |-> 0, end |-> 0, duration |-> 0, behindLive |-> 0]
    ELSE IF Len(s.buffered) > 0
         THEN [start |-> s.buffered[1], end |-> s.buffered[2],
               duration |-> s.buffered[2] - s.buffered[1],
               behindLive |-> Max(0, s.buffered[2] - s.currentTime)]
         ELSE [start |-> 0, end |-> 0, duration |-> 0,
               behindLive |-> Max(0, 0 - s.currentTime)]

\* DVRController.createVodOverlay
createVodOverlay(s) ==
    IF s.vodOverlay # "null" THEN s
    ELSE IF ~s.containerInDom THEN s
    ELSE [s EXCEPT !.vodOverlay = "none", !.embed = "empty",
                   !.overlays = @ + 1, !.players = 0]

\* history: embedContainer.innerHTML = '' took a player out of the container
Released(s) == IF s.players > 0 THEN Call(s, "released") ELSE s

\* createVodIframe without embedContainer.innerHTML = ''
createVodIframeAppend(s, vodId, startTime) ==
    IF s.overlays = 0 THEN s
    ELSE Call([s EXCEPT !.embed = "iframe",
                        !.players = @ + 1,
                        !.lastVodId = vodId],
              "createVodIframe")

\* DVRController.createVodIframe; document.getElementById('tns-vod-embed')
\* finds the container while the overlay is in the document
createVodIframe(s, vodId, startTime) ==
    IF s.overlays = 0 THEN s
    ELSE Call([Released(s) EXCEPT !.embed = "iframe",
                                  !.players = 0 + 1,
                                  !.lastVodId = vodId],
              "createVodIframe")

\* initVodEmbed without its reuse branch
initVodEmbedAnew(s, vodId, startTime, embedThrows) ==
    IF ~s.embedApi THEN createVodIframe(s, vodId, startTime)
    ELSE IF s.overlays = 0 THEN s
    ELSE IF embedThrows
         THEN createVodIframe([Released(s) EXCEPT !.embed = "empty",
                                                  !.players = 0,
                                                  !.lastVodId = vodId],
                              vodId, startTime)
         ELSE Call([Released(s) EXCEPT !.embed = "embed",
                             !.players = 0 + 1,
                             !.lastVodId = vodId,
                             !.vodPlayer = vodId],
                   "new Twitch.Embed")

\* DVRController.initVodEmbed; embedThrows: new Twitch.Embed(...) throws
initVodEmbed(s, vodId, startTime, embedThrows) ==
    IF s.vodPlayer # NoName /\ s.lastVodId = vodId
    THEN Call(s, "vodPlayer.seek")
    ELSE IF ~s.embedApi THEN createVodIframe(s, vodId, startTime)
    ELSE IF s.overlays = 0 THEN s
    ELSE IF embedThrows
         THEN createVodIframe([Released(s) EXCEPT !.embed = "empty",
                                                  !.players = 0,
                                                  !.lastVodId = vodId],
                              vodId, startTime)
         ELSE Call([Released(s) EXCEPT !.embed = "embed",
                             !.players = 0 + 1,
                             !.lastVodId = vodId,
                             !.vodPlayer = vodId],
                   "new Twitch.Embed")

\* switchToVodShow without the test for a recording id
switchToVodShowAlways(s, vodPositionCs, embedThrows) ==
    LET adjustedPosition == Max(0, vodPositionCs - LeadInCs)
        s1 == IF s.vodOverlay = "null" THEN createVodOverlay(s) ELSE s
        s2 == initVodEmbed(Call(IF s.currentVodId = NoName
                                THEN Call(s1, "noVod") ELSE s1,
                                "initVodEmbed"),
                           s1.currentVodId, adjustedPosition, embedThrows)
    IN  IF s2.vodOverlay # "null"
        THEN [s2 EXCEPT !.vodOverlay = "block",
                        !.isWatchingVod = TRUE,
                        !.muted = IF s2.playerElement THEN TRUE ELSE @]
        ELSE s2

\* DVRController.switchToVod after refreshVodInfo has been awaited
switchToVodShow(s, vodPositionCs, embedThrows) ==
    IF s.currentVodId = NoName THEN Call(s, "noVod")
    ELSE
        LET adjustedPosition == Max(0, vodPositionCs - LeadInCs)
            s1 == IF s.vodOverlay = "null" THEN createVodOverlay(s) ELSE s
            s2 == initVodEmbed(Call(s1, "initVodEmbed"), s1.currentVodId,
                               adjustedPosition, embedThrows)
        IN  IF s2.vodOverlay # "null"
            THEN [s2 EXCEPT !.vodOverlay = "block",
                            !.isWatchingVod = TRUE,
                            !.muted = IF s2.playerElement THEN TRUE ELSE @]
            ELSE s2

\* DVRController.switchToVod up to its await: with a recording id, or with
\* no channel to ask about, it runs through; otherwise it waits for the
\* answer of checkStreamInfo(currentChannel)
switchToVod(s, vodPositionCs, embedThrows) ==
    IF s.currentVodId = NoName /\ s.currentChannel # NoName
    THEN [Call(s, "switchToVod") EXCEPT !.pendingSeeks =
             Append(@, [channel |-> s.currentChannel,
                        position |-> vodPositionCs,
                        superseded |-> FALSE])]
    ELSE switchToVodShow(Call(s, "switchToVod"), vodPositionCs, embedThrows)

\* switchToLive that leaves the native player muted
switchToLiveMuted(s) ==
    LET s1 == [s EXCEPT !.vodOverlay = IF @ = "null" THEN @ ELSE "none",
                        !.isWatchingVod = FALSE]
        s2 == IF s1.playerElement /\ Len(s1.buffered) > 0
              THEN Call([s1 EXCEPT !.currentTime = s1.buffered[2]],
                        "currentTime=")
              ELSE s1
    IN  Call(s2, "switchToLive")

\* DVRController.switchToLive
switchToLive(s) ==
    LET s1 == [s EXCEPT !.vodOverlay = IF @ = "null" THEN @ ELSE "none",
                        !.isWatchingVod = FALSE]
        s2 == IF s1.playerElement
              THEN IF Len(s1.buffered) > 0
                   THEN Call([s1 EXCEPT !.muted = FALSE,
                                        !.currentTime = s1.buffered[2]],
                             "currentTime=")
                   ELSE [s1 EXCEPT !.muted = FALSE]
              ELSE s1
    IN  Call(s2, "switchToLive")

\* DVRController.handleGoLive
handleGoLive(s) ==
    IF s.isWatchingVod THEN switchToLive(Call(s, "handleGoLive"))
    ELSE IF s.playerElement /\ Len(s.buffered) > 0
         THEN Call(Call([s EXCEPT !.currentTime = s.buffered[2]],
                        "currentTime="), "handleGoLive")
         ELSE Call(s, "handleGoLive")

\* handleSeek with the buffer comparison inverted
handleSeekInverted(s, positionPercent, sinceStart, embedThrows) ==
    LET elapsed == getElapsedTime(s, sinceStart)
        bufferInfo == getBufferInfo(s)
        targetCsFromStart == elapsed * positionPercent
        csBehindLive == elapsed * 100 - targetCsFromStart
        s0 == [s EXCEPT !.pct = positionPercent, !.elapsed = elapsed]
    IN  IF positionPercent >= NearLivePercent \/ csBehindLive < NearLiveCs
        THEN handleGoLive(s0)
        ELSE IF csBehindLive >= bufferInfo.duration
        THEN LET targetTime == bufferInfo.end - csBehindLive
                 s1 == IF s0.isWatchingVod THEN switchToLive(s0) ELSE s0
             IN  IF s1.playerElement
                 THEN Call(Call([s1 EXCEPT !.currentTime = targetTime],
                                "currentTime="), "seekInBuffer")
                 ELSE Call(s1, "seekInBuffer")
        ELSE switchToVod(s0, targetCsFromStart, embedThrows)

\* handleSeek with the near-live percentage excluded
handleSeekAbove(s, positionPercent, sinceStart, embedThrows) ==
    LET elapsed == getElapsedTime(s, sinceStart)
        bufferInfo == getBufferInfo(s)
        targetCsFromStart == elapsed * positionPercent
        csBehindLive == elapsed * 100 - targetCsFromStart
        s0 == [s EXCEPT !.pct = positionPercent, !.elapsed = elapsed]
    IN  IF positionPercent > NearLivePercent \/ csBehindLive < NearLiveCs
        THEN handleGoLive(s0)
        ELSE IF csBehindLive <= bufferInfo.duration
        THEN LET targetTime == bufferInfo.end - csBehindLive
                 s1 == IF s0.isWatchingVod THEN switchToLive(s0) ELSE s0
             IN  IF s1.playerElement
                 THEN Call(Call([s1 EXCEPT !.currentTime = targetTime],
                                "currentTime="), "seekInBuffer")
                 ELSE Call(s1, "seekInBuffer")
        ELSE switchToVod(s0, targetCsFromStart, embedThrows)

\* handleSeek that measures the target from the start of the buffer
handleSeekFromStart(s, positionPercent, sinceStart, embedThrows) ==
    LET elapsed == getElapsedTime(s, sinceStart)
        bufferInfo == getBufferInfo(s)
        targetCsFromStart == elapsed * positionPercent
        csBehindLive == elapsed * 100 - targetCsFromStart
        s0 == [s EXCEPT !.pct = positionPercent, !.elapsed = elapsed]
    IN  IF positionPercent >= NearLivePercent \/ csBehindLive < NearLiveCs
        THEN handleGoLive(s0)
        ELSE IF csBehindLive <= bufferInfo.duration
        THEN LET targetTime == bufferInfo.start + csBehindLive
                 s1 == IF s0.isWatchingVod THEN switchToLive(s0) ELSE s0
             IN  IF s1.playerElement
                 THEN Call(Call([s1 EXCEPT !.currentTime = targetTime],
                                "currentTime="), "seekInBuffer")
                 ELSE Call(s1, "seekInBuffer")
        ELSE switchToVod(s0, targetCsFromStart, embedThrows)

\* DVRController.handleSeek; times in centiseconds:
\* secondsBehindLive * 100 = elapsed * 100 - elapsed * positionPercent
handleSeek(s, positionPercent, sinceStart, embedThrows) ==
    LET elapsed == getElapsedTime(s, sinceStart)
        bufferInfo == getBufferInfo(s)
        targetCsFromStart == elapsed * positionPercent
        csBehindLive == elapsed * 100 - targetCsFromStart
        s0 == [s EXCEPT !.pct = positionPercent, !.elapsed = elapsed]
    IN  IF positionPercent >= NearLivePercent \/ csBehindLive < NearLiveCs
        THEN handleGoLive(s0)
        ELSE IF csBehindLive <= bufferInfo.duration
        THEN LET targetTime == bufferInfo.end - csBehindLive
                 s1 == IF s0.isWatchingVod THEN switchToLive(s0) ELSE s0
             IN  IF s1.playerElement
                 THEN Call(Call([s1 EXCEPT !.currentTime = targetTime],
                                "currentTime="), "seekInBuffer")
                 ELSE Call(s1, "seekInBuffer")
        ELSE switchToVod(s0, targetCsFromStart, embedThrows)

AtLiveCs == 200
PreviewLiveCs == 100

\* a quotient of JavaScript numbers as the pair <<numerator, denominator>>:
\* 0 / 0 is NaN, kept as <<0, 0>>
NaN == <<0, 0>>

\* Math.max(0, 100 - (behindLive / elapsed * 100)); behindLive in
\* centiseconds, elapsed in seconds.  x / 0 is Infinity for x > 0, and
\* Math.max(0, NaN) is NaN
positionOf(behindLive, elapsed) ==
    IF elapsed = 0
    THEN IF behindLive = 0 THEN NaN ELSE <<0, 1>>
    ELSE Fraction(Max(0, 100 * elapsed - behindLive), elapsed)

\* DVRController.updateUI
updateUI(s, sinceStart) ==
    IF ~s.isActive \/ ~s.playerElement THEN s
    ELSE
        LET bufferInfo == getBufferInfo(s)
            elapsed == getElapsedTime(s, sinceStart)
            isAtLive == bufferInfo.behindLive < AtLiveCs /\ ~s.isWatchingVod
        IN  Call([s EXCEPT !.snapshot =
                     [position |-> IF isAtLive THEN <<100, 1>>
                                   ELSE positionOf(bufferInfo.behindLive, elapsed),
                      isAtLive |-> isAtLive,
                      isWatchingVod |-> s.isWatchingVod],
                            !.elapsed = elapsed],
                 "ui.updateProgress")

\* DVRController.handlePreview; the text is LIVE, or the time behind live
\* as formatTime writes it, with (VOD) after it or not
handlePreview(s, positionPercent, sinceStart) ==
    LET elapsed == getElapsedTime(s, sinceStart)
        csBehindLive == elapsed * 100 - elapsed * positionPercent
        bufferInfo == getBufferInfo(s)
        s0 == Call([s EXCEPT !.pct = positionPercent, !.elapsed = elapsed],
                   "handlePreview")
    IN  IF positionPercent >= NearLivePercent \/ csBehindLive < PreviewLiveCs
        THEN [s0 EXCEPT !.label = [text |-> "LIVE", vod |-> FALSE]]
        ELSE [s0 EXCEPT !.label =
                 [text |-> "-",
                  vod |-> csBehindLive > bufferInfo.duration
                          /\ s.currentVodId # NoName]]

\* DVRController.startUpdateLoop
startUpdateLoop(s) == Call([s EXCEPT !.updateInterval = TRUE], "startUpdateLoop")

\* the .then of waitForPlayer() in startDVR
playerWaited(s) == startUpdateLoop(Call(s, "ui.attach"))

\* waitForPlayer calls whose interval is cleared and whose timeout fired
\* can do nothing more; the last one stays, playerCheckInterval names it
RECURSIVE DropDead(_)
DropDead(ws) ==
    IF Len(ws) <= 1 THEN ws
    ELSE IF ~Head(ws).interval /\ ~Head(ws).timeout THEN DropDead(Tail(ws))
         ELSE <<Head(ws)>> \o DropDead(Tail(ws))

NewWait == [interval |-> TRUE, timeout |-> TRUE, resolved |-> FALSE]

\* DVRController.waitForPlayer, with the .then startDVR chains on it
waitForPlayer(s) ==
    IF s.videoInDom
    THEN playerWaited([s EXCEPT !.playerElement = TRUE])
    ELSE [s EXCEPT !.waits = DropDead(Append(@, NewWait))]

\* startDVR without its test for a session already active on the channel
startDVRAgain(s, channelName, streamInfo, clock) ==
    LET s1 == [s EXCEPT !.currentChannel = channelName,
                        !.isActive = TRUE,
                        !.streamStartTime = streamInfo.streamStartTime,
                        !.currentVodId = streamInfo.vodId]
        s2 == IF s1.currentVodId # NoName THEN createVodOverlay(s1) ELSE s1
        s3 == [s2 EXCEPT !.tracker =
                  [startTracking(@, channelName, clock)
                      EXCEPT !.streamStartTime = streamInfo.streamStartTime]]
        s4 == waitForPlayer(s3)
    IN  [s4 EXCEPT !.leakedRefresh =
                      IF s4.vodRefreshInterval THEN @ + 1 ELSE @,
                   !.vodRefreshInterval = TRUE]

\* DVRController.startDVR; streamInfo = [streamStartTime, vodId]
startDVR(s, channelName, streamInfo, clock) ==
    IF s.isActive /\ s.currentChannel = channelName THEN s
    ELSE
        LET s1 == [s EXCEPT !.currentChannel = channelName,
                            !.isActive = TRUE,
                            !.streamStartTime = streamInfo.streamStartTime,
                            !.currentVodId = streamInfo.vodId]
            s2 == IF s1.currentVodId # NoName THEN createVodOverlay(s1) ELSE s1
            s3 == [s2 EXCEPT !.tracker =
                      [startTracking(@, channelName, clock)
                          EXCEPT !.streamStartTime = streamInfo.streamStartTime]]
            s4 == waitForPlayer(s3)
        IN  [s4 EXCEPT !.leakedRefresh =
                          IF s4.vodRefreshInterval THEN @ + 1 ELSE @,
                       !.vodRefreshInterval = TRUE]

\* DVRController.stopDVR
stopDVR(s) ==
    IF ~s.isActive THEN s
    ELSE
        LET s1 == [s EXCEPT !.isActive = FALSE,
                            !.currentChannel = NoName,
                            !.currentVodId = NoName,
                            !.streamStartTime = Null,
                            !.isWatchingVod = FALSE,
                            !.tracker = stopTracking(@)]
            s2 == IF s1.vodOverlay # "null"
                  THEN [s1 EXCEPT !.vodOverlay = "null",
                                  !.embed = "none",
                                  !.overlays = Max(0, @ - 1),
                                  !.players = 0,
                                  !.vodPlayer = NoName]
                  ELSE s1
        IN  [s2 EXCEPT !.updateInterval = FALSE,
                       !.vodRefreshInterval = FALSE]

\* DVRController.refreshVodInfo once checkStreamInfo has answered;
\* vodId is NoName when the stream has no archive or the query failed
refreshVodInfoDone(s, vodId) ==
    IF vodId # NoName THEN [s EXCEPT !.currentVodId = vodId] ELSE s


\* DVRController.checkCurrentPage up to the answer of checkStreamInfo
checkCurrentPage(s) ==
    IF s.location \in Channels
    THEN [s EXCEPT !.pendingPage = Append(@, s.location)]
    ELSE stopDVR(Call(s, "stopDVR"))

\* the .then of checkStreamInfo in checkCurrentPage
checkCurrentPageDone(s, channelName, info, clock) ==
    IF info.isLive
    THEN startDVR(Call(s, "startDVR"), channelName, info, clock)
    ELSE stopDVR(Call(IF info.failed THEN Call(s, "queryFailed") ELSE s,
                      "stopDVR"))

\* what checkStreamInfo(channel) can answer: live (stream.createdAt as
\* streamStartTime) with or without an archive, or not live; failed tells
\* that the answer comes from its catch, after fetch or response.json threw
StreamInfos(channel) ==
    { [isLive |-> TRUE, streamStartTime |-> 500, vodId |-> VodOf(channel),
       failed |-> FALSE],
      [isLive |-> TRUE, streamStartTime |-> 500, vodId |-> NoName,
       failed |-> FALSE],
      [isLive |-> FALSE, streamStartTime |-> Null, vodId |-> NoName,
       failed |-> FALSE],
      [isLive |-> FALSE, streamStartTime |-> Null, vodId |-> NoName,
       failed |-> TRUE] }

AllStreamInfos == UNION { StreamInfos(c) : c \in Channels }

RemoveAt(seq, i) == SubSeq(seq, 1, i - 1) \o SubSeq(seq, i + 1, Len(seq))

\* clearInterval(this.playerCheckInterval)
clearPlayerCheck(ws) ==
    IF ws = << >> THEN ws ELSE [ws EXCEPT ![Len(ws)].interval = FALSE]

\* resolve(...) of the promise of the i-th waitForPlayer call
resolveWait(s, i) ==
    IF s.waits[i].resolved THEN s
    ELSE playerWaited([s EXCEPT !.waits[i].resolved = TRUE])

\* the setInterval callback of waitForPlayer (every 500 ms)
playerCheckTick(s, i) ==
    IF s.videoInDom
    THEN LET s1 == resolveWait([s EXCEPT !.playerElement = TRUE], i)
         IN  [s1 EXCEPT !.waits = DropDead(clearPlayerCheck(@))]
    ELSE s

\* the setTimeout callback of waitForPlayer (after 30 s)
playerCheckTimeout(s, i) ==
    LET s1 == [Call(s, "playerCheckTimeout") EXCEPT !.waits[i].timeout = FALSE]
        s2 == [s1 EXCEPT !.waits = clearPlayerCheck(@)]
        s3 == resolveWait(s2, i)
    IN  [s3 EXCEPT !.waits = DropDead(@)]

\* the 30 s callback without its test of currentVodId
vodRefreshTickAlways(s) ==
    IF s.currentChannel # NoName
    THEN [s EXCEPT !.pendingRefresh = Append(@, s.currentChannel)]
    ELSE s

\* the setInterval callback of startDVR (every 30 s)
vodRefreshTick(s) ==
    IF s.currentVodId = NoName /\ s.currentChannel # NoName
    THEN [s EXCEPT !.pendingRefresh = Append(@, s.currentChannel)]
    ELSE s

\* a newer handleSeek: the seeks still waiting are older than it
Supersede(s) ==
    [s EXCEPT !.pendingSeeks =
        [i \in 1..Len(@) |-> [@[i] EXCEPT !.superseded = TRUE]]]

\* history: the continuation that runs belongs to a superseded seek
Resumed(s, seek) == IF seek.superseded THEN Call(s, "superseded") ELSE s

WithinBounds(s) ==
    /\ Len(s.pendingPage) <= MaxPending
    /\ Len(s.pendingRefresh) <= MaxPending
    /\ Len(s.pendingSeeks) <= MaxPending
    /\ s.leakedRefresh <= MaxLeaked

----------------------------------------------------------------------------
(* The controller's handlers as actions *)

Step(s) ==
    /\ WithinBounds(s)
    /\ dvr' = s
    /\ UNCHANGED now

\* initialize() has run on one of the pages: checkCurrentPage was called once
InitOn(pages) ==
    /\ now = FirstInstant
    /\ \E page \in pages :
          dvr = checkCurrentPage([ControllerInit EXCEPT !.location = page])

\* history.pushState / replaceState / popstate, and the checkCurrentPage
\* they schedule
Navigate(page) ==
    Step(checkCurrentPage(Begin([dvr EXCEPT !.location = page])))

\* checkStreamInfo answers checkCurrentPage; startDVR is the one handler
\* that adds a waitForPlayer call, so the bound on them is kept here
CheckCurrentPageDoneWithin(i, info, maxWaits) ==
    /\ i \in 1..Len(dvr.pendingPage)
    /\ info \in StreamInfos(dvr.pendingPage[i])
    /\ LET s == checkCurrentPageDone(
                    Begin([dvr EXCEPT !.pendingPage = RemoveAt(@, i)]),
                    dvr.pendingPage[i], info, now)
       IN  Len(s.waits) <= maxWaits /\ Step(s)

CheckCurrentPageDone(i, info) == CheckCurrentPageDoneWithin(i, info, MaxWaits)

\* DVRController.enable
Enable ==
    Step(checkCurrentPage([Begin(dvr) EXCEPT !.enabled = TRUE]))

\* DVRController.disable
Disable ==
    Step(stopDVR(Call([Begin(dvr) EXCEPT !.enabled = FALSE], "stopDVR")))

\* the seek bar takes the pointer only once showUI has shown it: the
\* session is active and the pointer is over the player container
UiShown == dvr.isActive /\ dvr.containerInDom

\* ui.onSeek
HandleSeek(positionPercent, sinceStart, embedThrows) ==
    /\ UiShown
    /\ Step(handleSeek(Call(Supersede(Begin(dvr)), "handleSeek"),
                       positionPercent, sinceStart, embedThrows))

\* ui.onGoLive
HandleGoLive ==
    /\ UiShown
    /\ Step(handleGoLive(Begin(dvr)))

\* the button inside the overlay
ReturnClick ==
    /\ dvr.vodOverlay = "block"
    /\ Step(switchToLive(Begin(dvr)))

\* checkStreamInfo answers the refreshVodInfo a switchToVod awaits
SwitchToVodResume(i, vodId, embedThrows) ==
    /\ i \in 1..Len(dvr.pendingSeeks)
    /\ vodId \in {VodOf(dvr.pendingSeeks[i].channel), NoName}
    /\ Step(switchToVodShow(
              refreshVodInfoDone(
                  Resumed(Begin([dvr EXCEPT !.pendingSeeks = RemoveAt(@, i)]),
                          dvr.pendingSeeks[i]),
                  vodId),
              dvr.pendingSeeks[i].position, embedThrows))

\* the VIDEO_PLAY listener of initVodEmbed
VideoPlay ==
    /\ dvr.embed = "embed"
    /\ Step(Call([Begin(dvr) EXCEPT !.isWatchingVod = TRUE], "VIDEO_PLAY"))

VodRefreshTick ==
    /\ dvr.vodRefreshInterval \/ dvr.leakedRefresh > 0
    /\ Step(vodRefreshTick(Call(Begin(dvr), "vodRefreshTick")))

\* checkStreamInfo answers the refreshVodInfo of the 30 s timer
VodRefreshDone(i, vodId) ==
    /\ i \in 1..Len(dvr.pendingRefresh)
    /\ vodId \in {VodOf(dvr.pendingRefresh[i]), NoName}
    /\ Step(refreshVodInfoDone(
              Begin([dvr EXCEPT !.pendingRefresh = RemoveAt(@, i)]), vodId))

PlayerCheckTick(i) ==
    /\ i \in 1..Len(dvr.waits)
    /\ dvr.waits[i].interval
    /\ Step(playerCheckTick(Begin(dvr), i))

PlayerCheckTimeout(i) ==
    /\ i \in 1..Len(dvr.waits)
    /\ dvr.waits[i].timeout
    /\ Step(playerCheckTimeout(Begin(dvr), i))

\* the page: Twitch renders its player, the embed script loads, the native
\* player buffers
ContainerAppears ==
    /\ ~dvr.containerInDom
    /\ Step([Begin(dvr) EXCEPT !.containerInDom = TRUE])

VideoAppears ==
    /\ ~dvr.videoInDom
    /\ Step([Begin(dvr) EXCEPT !.videoInDom = TRUE])

EmbedApiLoads ==
    /\ ~dvr.embedApi
    /\ Step([Begin(dvr) EXCEPT !.embedApi = TRUE])

BufferChange(b) ==
    /\ dvr.videoInDom
    /\ b # dvr.buffered
    /\ Step([Begin(dvr) EXCEPT !.buffered = b])

\* the page renders its player anew: the container the overlay was appended
\* to leaves the document and another takes its place
PlayerRemounts ==
    /\ dvr.containerInDom
    /\ dvr.overlays > 0
    /\ Step([Begin(dvr) EXCEPT !.overlays = 0])

\* navigation and the answers to its live-status queries
Session(pages) ==
    \/ \E page \in pages : Navigate(page)
    \/ \E i \in 1..MaxPending, info \in AllStreamInfos :
          CheckCurrentPageDone(i, info)

\* the session control interface
Control ==
    \/ Enable
    \/ Disable

\* the viewer's intents and the secondary player's events
Seeking ==
    \/ \E p \in Percents, e \in Elapsed, th \in BOOLEAN : HandleSeek(p, e, th)
    \/ HandleGoLive
    \/ ReturnClick
    \/ \E i \in 1..MaxPending, v \in VodIds \cup {NoName}, th \in BOOLEAN :
          SwitchToVodResume(i, v, th)
    \/ VideoPlay

\* the 30 s recording-id refresh
Refresh ==
    \/ VodRefreshTick
    \/ \E i \in 1..MaxPending, v \in VodIds \cup {NoName} : VodRefreshDone(i, v)

\* the discovery of the native player
Discovery ==
    \/ \E i \in 1..MaxWaits : PlayerCheckTick(i)
    \/ \E i \in 1..MaxWaits : PlayerCheckTimeout(i)

Page ==
    \/ ContainerAppears
    \/ EmbedApiLoads
    \/ \E b \in Buffers : BufferChange(b)

\* The arbiter while the viewer stays on one channel or leaves it: sessions,
\* seeks, the secondary player and the page.
Next == Session(ViewerPages) \/ Seeking \/ Page \/ VideoAppears

Spec == InitOn(ViewerPages) /\ [][Next]_vars

\* The same, on a page that may render its player anew.
NextRemount == Next \/ PlayerRemounts

SpecRemount == InitOn(ViewerPages) /\ [][NextRemount]_vars

\* Sessions over all pages with their timers: the refresh of the recording
\* id and the discovery of the native player.
NextTimers == Session(Pages) \/ Control \/ Refresh \/ Discovery \/ VideoAppears

SpecTimers == InitOn(Pages) /\ [][NextTimers]_vars

\* the 250 ms timer of startUpdateLoop
UpdateUI(sinceStart) ==
    /\ dvr.updateInterval
    /\ Step(updateUI(Begin(dvr), sinceStart))

\* ui.onPreview: the pointer moves over the seek bar
HandlePreview(positionPercent, sinceStart) ==
    /\ UiShown
    /\ Step(handlePreview(Begin(dvr), positionPercent, sinceStart))

\* percentages under the pointer, and how long ago each channel went live
\* by the viewer's clock, in seconds: b within the last second
UiPercents == {10, 50, 96, 98}
StreamAge(channel) == IF channel = "a" THEN 100 ELSE 0

\* The seek bar: what it is shown and told while the viewer seeks and moves
\* between channels.
NextUi ==
    \/ \E page \in Channels : Navigate(page)
    \/ \E i \in 1..MaxPending, info \in AllStreamInfos :
          CheckCurrentPageDone(i, info)
    \/ \E p \in UiPercents :
          HandleSeek(p, StreamAge(dvr.currentChannel), FALSE)
    \/ ContainerAppears
    \/ VideoAppears
    \/ \E b \in Buffers : BufferChange(b)
    \/ UpdateUI(StreamAge(dvr.currentChannel))
    \/ \E p \in UiPercents : HandlePreview(p, StreamAge(dvr.currentChannel))

SpecUi == InitOn(Channels) /\ [][NextUi]_vars

\* The discovery of the native player over several sessions.
NextDiscovery ==
    \/ \E page \in Pages : Navigate(page)
    \/ \E i \in 1..MaxPending, info \in AllStreamInfos :
          CheckCurrentPageDoneWithin(i, info, MaxDiscoveries)
    \/ \E i \in 1..MaxDiscoveries : PlayerCheckTick(i)
    \/ \E i \in 1..MaxDiscoveries : PlayerCheckTimeout(i)
    \/ VideoAppears

SpecDiscovery == InitOn(Pages) /\ [][NextDiscovery]_vars

----------------------------------------------------------------------------
(* The tracker under its public interface, as dvr-inject.js and the        *)
(* controller call it                                                      *)

\* history of a tracker operation: how many segments it evicted
Evicted(t, t2, pushed) == Len(t.segments) + pushed - Len(t2.segments)

TrackerStep(t2, what, evicted) ==
    /\ Len(t2.segments) <= MaxSegments
    /\ dvr' = [Begin(dvr) EXCEPT !.tracker = t2,
                                 !.calls = {what},
                                 !.evicted = evicted]
    /\ UNCHANGED now

InitTracker ==
    /\ now = FirstInstant
    /\ dvr = ControllerInit

StartTracking(channelName) ==
    TrackerStep(startTracking(Quiet(dvr.tracker), channelName, now),
                "startTracking", 0)

StopTracking ==
    TrackerStep(stopTracking(Quiet(dvr.tracker)), "stopTracking", 0)

AddSegment(segmentInfo) ==
    LET t2 == addSegment(Quiet(dvr.tracker), segmentInfo, now)
    IN  TrackerStep(t2, "addSegment",
                    Evicted(dvr.tracker, t2, IF dvr.tracker.isLive THEN 1 ELSE 0))

\* the urls of a manifest that are not retained yet
NewUrls(t, playlistContent, baseUrl) ==
    { ResolveUrl(playlistContent[i], baseUrl) :
        i \in { j \in 1..Len(playlistContent) : playlistContent[j].kind = "URI" } }
    \ { t.segments[i].url : i \in 1..Len(t.segments) }

ProcessPlaylist(playlistContent, baseUrl) ==
    LET t2 == processPlaylist(Quiet(dvr.tracker), playlistContent, baseUrl, now)
    IN  TrackerStep(t2, "processPlaylist",
                    Evicted(dvr.tracker, t2,
                            IF dvr.tracker.isLive
                            THEN Cardinality(NewUrls(dvr.tracker, playlistContent,
                                                     baseUrl))
                            ELSE 0))

Tick(t) ==
    /\ t > now
    /\ now' = t
    /\ dvr' = Begin(dvr)

NextTracker ==
    \/ \E c \in Channels \cap ViewerPages : StartTracking(c)
    \/ StopTracking
    \/ \E u \in Urls, d \in {0, 4000} :
          AddSegment([url |-> u, duration |-> d, sequence |-> 0])
    \/ \E m \in Manifests, b \in Bases : ProcessPlaylist(m, b)
    \/ \E t \in Instants : Tick(t)

SpecTracker == InitTracker /\ [][NextTracker]_vars

\* a tracker fresh from its constructor, before anyone has registered
InitListeners ==
    /\ now = FirstInstant
    /\ dvr = [ControllerInit EXCEPT !.tracker = TrackerInit]

Registered(t) ==
    LET RECURSIVE Sum(_)
        Sum(es) == IF es = {} THEN 0
                   ELSE LET e == CHOOSE x \in es : TRUE
                        IN  Len(t.listeners[e]) + Sum(es \ {e})
    IN  Sum(Events)

\* tracker.on(event, callback); throws: the callback throws when called
On(event, throws) ==
    /\ Registered(dvr.tracker) < MaxListeners
    /\ TrackerStep(on(Quiet(dvr.tracker), event, throws), "on", 0)

\* tracker.reset()
Reset ==
    TrackerStep(reset(Quiet(dvr.tracker)), "reset", 0)

\* The tracker and its listeners.
NextListeners ==
    \/ \E e \in Events \cup {"other"}, th \in BOOLEAN : On(e, th)
    \/ \E c \in Channels \cap ViewerPages : StartTracking(c)
    \/ StopTracking
    \/ Reset
    \/ \E u \in Urls : AddSegment([url |-> u, duration |-> 0, sequence |-> 0])

SpecListeners == InitListeners /\ [][NextListeners]_vars

\* the well-formed locators of a manifest, resolved
Locators(playlistContent, baseUrl) ==
    { ResolveUrl(playlistContent[i], baseUrl) :
        i \in { j \in 1..Len(playlistContent) : playlistContent[j].kind = "URI" } }

\* the fetch hook hands over a manifest that has malformed lines
IngestMalformed(playlistContent, baseUrl) ==
    LET t2 == processPlaylist(Quiet(dvr.tracker), playlistContent, baseUrl, now)
    IN  /\ Len(t2.segments) <= MaxSegments
        /\ dvr' = [Begin(dvr) EXCEPT !.tracker = t2,
                                     !.calls = {"processPlaylist"},
                                     !.ingested = Locators(playlistContent,
                                                           baseUrl)]
        /\ UNCHANGED now

\* an entry of a manifest: a locator, after an #EXTINF line with a
\* duration, after one whose duration does not match, or after none
EntryKinds == [d : {4000, NoMatch, Null}, name : Names]

EntryLines(entry) ==
    (IF entry.d = Null THEN << >> ELSE << [kind |-> "EXTINF", d |-> entry.d] >>)
    \o << [kind |-> "URI", abs |-> FALSE, base |-> "b1", name |-> entry.name] >>

RECURSIVE Flatten(_)
Flatten(entries) ==
    IF entries = << >> THEN << >>
    ELSE EntryLines(Head(entries)) \o Flatten(Tail(entries))

EntryManifests == UNION { [1..n -> EntryKinds] : n \in 1..MaxEntries }

\* the locators of a manifest that are new to the timeline and whose own
\* entry declares no duration
Undeclared(t, entries, baseUrl) ==
    { <<baseUrl, entries[i].name>> :
        i \in { j \in 1..Len(entries) :
                  /\ entries[j].d \in {NoMatch, Null}
                  /\ \A k \in 1..(j - 1) : entries[k].name # entries[j].name
                  /\ ~HasUrl(t.segments, <<baseUrl, entries[j].name>>) } }

\* the fetch hook hands over a manifest some entries of which declare no
\* duration
IngestEntries(entries, baseUrl) ==
    LET t2 == processPlaylist(Quiet(dvr.tracker), Flatten(entries), baseUrl, now)
    IN  /\ Len(t2.segments) <= MaxSegments
        /\ dvr' = [Begin(dvr) EXCEPT !.tracker = t2,
                                     !.calls = {"processPlaylist"},
                                     !.ingested = Locators(Flatten(entries),
                                                           baseUrl),
                                     !.nominal = Undeclared(dvr.tracker, entries,
                                                            baseUrl)]
        /\ UNCHANGED now

\* Ingest of manifests with malformed lines.
NextIngest ==
    \/ \E c \in Channels \cap ViewerPages : StartTracking(c)
    \/ StopTracking
    \/ \E m \in MalformedManifests, b \in Bases : IngestMalformed(m, b)
    \/ \E es \in EntryManifests, b \in Bases : IngestEntries(es, b)
    \/ \E t \in Instants : Tick(t)

SpecIngest == InitTracker /\ [][NextIngest]_vars

----------------------------------------------------------------------------
(* Properties *)

\* the span of the native player's buffered ranges, centiseconds
NativeSpanCs ==
    IF dvr.playerElement /\ Len(dvr.buffered) > 0
    THEN dvr.buffered[2] - dvr.buffered[1] ELSE 0

\* what the last seek was behind live, centiseconds
BehindCs == dvr.elapsed * 100 - dvr.elapsed * dvr.pct

\* C1: after stopDVR returns the arbiter is Idle (isActive false,
\* isWatchingVod false, currentVodId null) and vodOverlay and vodPlayer are
\* both null.
C1_StopReachesIdle ==
    "stopDVR" \in dvr.calls =>
        /\ ~dvr.isActive
        /\ ~dvr.isWatchingVod
        /\ dvr.currentVodId = NoName
        /\ dvr.vodOverlay = "null"
        /\ dvr.vodPlayer = NoName

\* C2: a handleSeek with pct < 98 to a target at least 5 s behind live and
\* further behind than the native buffer spans calls switchToVod and does
\* not assign the native player's currentTime.
C2_BeyondBufferTakesRecorded ==
    ( /\ "handleSeek" \in dvr.calls
      /\ dvr.pct < 98
      /\ BehindCs >= 500
      /\ BehindCs > NativeSpanCs )
    => /\ "switchToVod" \in dvr.calls
       /\ "currentTime=" \notin dvr.calls

\* C2's case: E = 3600 s, B = 80 s, pct = 50 went to the recording
C2_Witness ==
    /\ "handleSeek" \in dvr.calls
    /\ dvr.pct = 50
    /\ dvr.elapsed = 3600
    /\ NativeSpanCs = 8000
    /\ "switchToVod" \in dvr.calls

\* C3: a handleSeek with pct >= 98 runs handleGoLive and never switchToVod,
\* whatever the elapsed time and the buffer; if the overlay was being
\* watched, afterwards it is hidden, isWatchingVod is false and the native
\* player is unmuted.
C3_NearLiveGoesLive ==
    [][ ("handleSeek" \in dvr'.calls /\ dvr'.pct >= 98)
        => /\ "handleGoLive" \in dvr'.calls
           /\ "switchToVod" \notin dvr'.calls
           /\ dvr.isWatchingVod =>
                 /\ ~dvr'.isWatchingVod
                 /\ dvr'.vodOverlay # "block"
                 /\ dvr'.playerElement => ~dvr'.muted ]_vars

\* C3's case: a seek to 100 % while the recording was watched returned to
\* the live player
C3_Witness ==
    /\ "handleSeek" \in dvr.calls
    /\ dvr.pct = 100
    /\ dvr.elapsed = 3600
    /\ "switchToLive" \in dvr.calls
    /\ dvr.vodOverlay = "none"

C5_ExactlyOneSource ==
    (dvr.isActive /\ dvr.playerElement) =>
        \/ dvr.vodOverlay # "block" /\ ~dvr.muted /\ ~dvr.isWatchingVod
        \/ dvr.vodOverlay = "block" /\ dvr.muted /\ dvr.isWatchingVod

\* C6: while isActive is false neither a 30 s refresh timer nor the 250 ms
\* update timer is scheduled.
C6_IdleHasNoTimers ==
    ~dvr.isActive =>
        /\ ~dvr.vodRefreshInterval
        /\ dvr.leakedRefresh = 0
        /\ ~dvr.updateInterval

\* C7: the continuation of a switchToVod that a newer handleSeek has
\* superseded changes neither the active source nor the position.
C7_NewerSeekWins ==
    [][ "superseded" \in dvr'.calls =>
          /\ dvr'.vodOverlay = dvr.vodOverlay
          /\ dvr'.isWatchingVod = dvr.isWatchingVod
          /\ dvr'.muted = dvr.muted
          /\ dvr'.currentTime = dvr.currentTime
          /\ dvr'.embed = dvr.embed
          /\ dvr'.vodPlayer = dvr.vodPlayer ]_vars

\* C8: no two retained segments share a url.
C8_NoDuplicateUrls ==
    \A i, j \in 1..Len(dvr.tracker.segments) :
        i # j => dvr.tracker.segments[i].url # dvr.tracker.segments[j].url

\* C9: once startTracking has run, earliestAvailableTime <=
\* latestAvailableTime, and getBufferDuration() is at most maxBufferDuration
\* plus the duration of the newest segment.
C9_SpanWithinRetention ==
    LET t == dvr.tracker
        newest == IF Len(t.segments) > 0
                  THEN t.segments[Len(t.segments)].duration ELSE 0
    IN  t.earliestAvailableTime # Null =>
            /\ t.earliestAvailableTime <= t.latestAvailableTime
            /\ getBufferDuration(t) <= 4 * 60 * 60 * 1000 + newest

\* C9's case: an insert evicted a segment and the span uses the slack
C9_Witness ==
    /\ "addSegment" \in dvr.calls
    /\ dvr.evicted > 0
    /\ getBufferDuration(dvr.tracker) > 4 * 60 * 60 * 1000

\* C10: canSeekBack() is true exactly when at least two segments are
\* retained and latestAvailableTime - earliestAvailableTime is more than
\* 5000 ms.
C10_CanSeekBackIff ==
    LET t == dvr.tracker
        span == IF t.earliestAvailableTime = Null THEN 0
                ELSE t.latestAvailableTime - t.earliestAvailableTime
    IN  canSeekBack(t) <=> (Len(t.segments) >= 2 /\ span > 5000)

\* C10's case: two segments whose span is exactly 5 s, which is not enough
C10_Witness ==
    /\ Len(dvr.tracker.segments) = 2
    /\ dvr.tracker.latestAvailableTime - dvr.tracker.earliestAvailableTime = 5000
    /\ ~canSeekBack(dvr.tracker)

\* timestamps within the bounds of the timeline: both ends, their
\* neighbours, the middle and 3 s after the start
SampleTimestamps(t) ==
    { ts \in { t.earliestAvailableTime, t.earliestAvailableTime + 1,
               t.earliestAvailableTime + 3000,
               (t.earliestAvailableTime + t.latestAvailableTime) \div 2,
               t.latestAvailableTime - 1, t.latestAvailableTime } :
        t.earliestAvailableTime <= ts /\ ts <= t.latestAvailableTime }

\* C11: with the bounds set, every timestamp between earliestAvailableTime
\* and latestAvailableTime is returned, to the millisecond, by
\* getTimestampFromPercentage(getPositionPercentage(t)), also when the two
\* bounds are equal.
C11_RoundTrip ==
    LET t == dvr.tracker
    IN  (t.earliestAvailableTime # Null /\ t.latestAvailableTime # Null) =>
            \A ts \in SampleTimestamps(t) :
                getTimestampFromPercentage(t, getPositionPercentage(t, ts)) = ts

\* C11's case: a timeline whose bounds differ and whose earliest bound has
\* moved away from the start of the session
C11_Witness ==
    /\ Len(dvr.tracker.segments) >= 2
    /\ dvr.tracker.earliestAvailableTime # dvr.tracker.streamStartTime
    /\ dvr.tracker.latestAvailableTime - dvr.tracker.earliestAvailableTime > 5000

\* C12: after processPlaylist on a manifest with malformed lines, every
\* well-formed locator of the manifest is retained.
C12_MalformedLinesAreSkipped ==
    ("processPlaylist" \in dvr.calls /\ dvr.tracker.isLive) =>
        \A u \in dvr.ingested : HasUrl(dvr.tracker.segments, u)

\* C18: right after stopTracking, and right after startTracking, no segment
\* is retained and the bounds do not come from an earlier session.
C18_TimelineCleared ==
    LET t == dvr.tracker
    IN  /\ "stopTracking" \in dvr.calls =>
              /\ t.segments = << >>
              /\ t.earliestAvailableTime = Null
              /\ t.latestAvailableTime = Null
        /\ "startTracking" \in dvr.calls =>
              /\ t.segments = << >>
              /\ t.earliestAvailableTime = now
              /\ t.latestAvailableTime = now

\* C13: a switchToVod that still has no recording id after its one
\* refreshVodInfo reports it and changes nothing: isWatchingVod, the
\* overlay's display, the native player's mute flag and its position are as
\* before.
C13_NoRecordingNoTransition ==
    [][ "noVod" \in dvr'.calls =>
            /\ dvr'.isWatchingVod = dvr.isWatchingVod
            /\ dvr'.vodOverlay = dvr.vodOverlay
            /\ dvr'.muted = dvr.muted
            /\ dvr'.currentTime = dvr.currentTime ]_vars

\* C13's case: the resolution of a seek in an active session, with the
\* native player found, came back without a recording id
C13_Witness ==
    /\ "noVod" \in dvr.calls
    /\ dvr.isActive
    /\ dvr.playerElement
    /\ dvr.currentVodId = NoName

\* C14: the answer of a failed checkStreamInfo leaves the session as it
\* was: isActive, the channel, the recording id and the secondary source
\* are unchanged.
C14_FailedQueryKeepsState ==
    [][ "queryFailed" \in dvr'.calls =>
            /\ dvr'.isActive = dvr.isActive
            /\ dvr'.currentChannel = dvr.currentChannel
            /\ dvr'.currentVodId = dvr.currentVodId
            /\ dvr'.vodOverlay = dvr.vodOverlay
            /\ dvr'.vodPlayer = dvr.vodPlayer
            /\ dvr'.embed = dvr.embed ]_vars

C17_TimeoutNeverAttaches ==
    ("playerCheckTimeout" \in dvr.calls /\ ~dvr.playerElement) =>
        /\ "ui.attach" \notin dvr.calls
        /\ "startUpdateLoop" \notin dvr.calls

\* C20: at most one 30 s refresh timer is scheduled at any time.
C20_OneRefreshTimer ==
    (IF dvr.vodRefreshInterval THEN 1 ELSE 0) + dvr.leakedRefresh <= 1

\* C16: the document holds at most one overlay and the embed container at
\* most one player; right after a player is created it is the only one.
C16_OneSecondaryInstance ==
    /\ dvr.overlays <= 1
    /\ dvr.players <= 1
    /\ ("new Twitch.Embed" \in dvr.calls \/ "createVodIframe" \in dvr.calls) =>
          dvr.players = 1

\* C16's case: a seek while the recording is shown has created an iframe
\* player again, in the container that held the one of the seek before
C16_Witness ==
    /\ "createVodIframe" \in dvr.calls
    /\ "released" \in dvr.calls
    /\ dvr.players = 1
    /\ dvr.overlays = 1
    /\ dvr.embed = "iframe"
    /\ dvr.players = 1
    /\ dvr.overlays = 1

\* C19: a switchToVod in which neither the reuse, nor new Twitch.Embed, nor
\* the iframe produced a player leaves isWatchingVod, the overlay's display
\* and the native player's mute flag as they were.
C19_FailedSwitchKeepsState ==
    [][ (/\ "initVodEmbed" \in dvr'.calls
         /\ "vodPlayer.seek" \notin dvr'.calls
         /\ "new Twitch.Embed" \notin dvr'.calls
         /\ "createVodIframe" \notin dvr'.calls) =>
            /\ dvr'.isWatchingVod = dvr.isWatchingVod
            /\ dvr'.vodOverlay = dvr.vodOverlay
            /\ dvr'.muted = dvr.muted ]_vars

\* the callbacks registered for the events, in the order of the events and,
\* for each event, in the order of registration
RECURSIVE Deliveries(_, _)
Deliveries(t, events) ==
    IF events = << >> THEN << >>
    ELSE [i \in 1..Len(t.listeners[Head(events)]) |-> <<Head(events), i>>]
         \o Deliveries(t, Tail(events))

\* C24: the callbacks a tracker method invoked are, for each event it
\* emitted, every listener of that event once and in the order of
\* registration, whether or not one of them throws; and addSegment,
\* startTracking and stopTracking run to their end.
C24_EveryListenerInvoked ==
    LET t == dvr.tracker
    IN  /\ t.invoked = Deliveries(t, t.emitted)
        /\ ("addSegment" \in dvr.calls /\ t.isLive) =>
              /\ t.emitted = <<"segmentAdded", "timelineUpdated">>
              /\ t.segments # << >>
        /\ "startTracking" \in dvr.calls =>
              (t.emitted = <<"streamStarted">> /\ t.isLive)
        /\ "stopTracking" \in dvr.calls => ~t.isLive

\* C24's case: the first listener of an emitted event throws and the second
\* one was invoked after it
C24_Witness ==
    \E e \in Events :
        /\ Len(dvr.tracker.listeners[e]) >= 2
        /\ dvr.tracker.listeners[e][1]
        /\ dvr.tracker.invoked = << <<e, 1>>, <<e, 2>> >>

\* C25: a call that inserts, evicts or resets has emitted a notification
\* before it returns.
C25_ChangeIsNotified ==
    LET t == dvr.tracker
    IN  /\ ("addSegment" \in dvr.calls /\ t.isLive) =>
              t.emitted = <<"segmentAdded", "timelineUpdated">>
        /\ dvr.evicted > 0 => "timelineUpdated" \in { t.emitted[i] : i \in 1..Len(t.emitted) }
        /\ "startTracking" \in dvr.calls => t.emitted # << >>
        /\ "reset" \in dvr.calls => t.emitted # << >>

\* C26: addSegment and processPlaylist on a tracker that is not live leave
\* segments and both bounds as they were and emit nothing.
C26_InactiveIsNoOp ==
    [][ (/\ ~dvr.tracker.isLive
         /\ ("addSegment" \in dvr'.calls \/ "processPlaylist" \in dvr'.calls)) =>
            /\ dvr'.tracker.segments = dvr.tracker.segments
            /\ dvr'.tracker.earliestAvailableTime = dvr.tracker.earliestAvailableTime
            /\ dvr'.tracker.latestAvailableTime = dvr.tracker.latestAvailableTime
            /\ dvr'.tracker.emitted = << >>
            /\ dvr'.tracker.invoked = << >> ]_vars

\* C26's case: addSegment was called after stopTracking, on a timeline that
\* still holds a segment
C26_Witness ==
    /\ "addSegment" \in dvr.calls
    /\ ~dvr.tracker.isLive
    /\ dvr.tracker.segments # << >>
    /\ dvr.tracker.emitted = << >>

\* C27: a locator new to the timeline whose own entry declares no duration,
\* or one that does not match, is recorded with segmentDuration.
C27_MissingDurationIsNominal ==
    "processPlaylist" \in dvr.calls =>
        \A i \in 1..Len(dvr.tracker.segments) :
            dvr.tracker.segments[i].url \in dvr.nominal =>
                dvr.tracker.segments[i].duration = segmentDuration

\* the segments with timestamp >= cutoffTime
RECURSIVE KeepFrom(_, _)
KeepFrom(segs, cutoffTime) ==
    IF segs = << >> THEN << >>
    ELSE IF Head(segs).timestamp >= cutoffTime
         THEN <<Head(segs)>> \o KeepFrom(Tail(segs), cutoffTime)
         ELSE KeepFrom(Tail(segs), cutoffTime)

\* C28: after addSegment at time now on a live tracker the segments are the
\* earlier ones and the new one without those whose timestamp is below
\* now - maxBufferDuration, and earliestAvailableTime is the timestamp of
\* the first of them.
C28_InsertEvictsBelowCutoff ==
    [][ ("addSegment" \in dvr'.calls /\ dvr.tracker.isLive) =>
            LET new == dvr'.tracker.segments[Len(dvr'.tracker.segments)]
            IN  /\ dvr'.tracker.segments # << >>
                /\ new.timestamp = now
                /\ dvr'.tracker.segments =
                      KeepFrom(Append(dvr.tracker.segments, new),
                               now - maxBufferDuration)
                /\ dvr'.tracker.earliestAvailableTime =
                      dvr'.tracker.segments[1].timestamp ]_vars

\* C29: processPlaylist on a manifest all of whose locators are retained
\* adds no segment, keeps both bounds and emits nothing.
C29_IngestIsIdempotent ==
    [][ (/\ "processPlaylist" \in dvr'.calls
         /\ dvr.tracker.isLive
         /\ \A u \in dvr'.ingested :
               \E i \in 1..Len(dvr.tracker.segments) :
                   dvr.tracker.segments[i].url = u) =>
            /\ dvr'.tracker.segments = dvr.tracker.segments
            /\ dvr'.tracker.earliestAvailableTime = dvr.tracker.earliestAvailableTime
            /\ dvr'.tracker.latestAvailableTime = dvr.tracker.latestAvailableTime
            /\ dvr'.tracker.emitted = << >> ]_vars

\* C29's case: a manifest with two locators, both retained, was ingested
C29_Witness ==
    /\ "processPlaylist" \in dvr.calls
    /\ dvr.tracker.isLive
    /\ Cardinality(dvr.ingested) = 2
    /\ Len(dvr.tracker.segments) = 2
    /\ dvr.tracker.emitted = << >>

\* percentages inside and outside 0..100
SamplePercentages == { <<0 - 50, 1>>, <<0, 1>>, <<50, 1>>, <<100, 1>>, <<150, 1>> }

\* a percentage as a pair lies in [0, 100]
InRange(percentage) ==
    /\ percentage[2] > 0
    /\ 0 <= percentage[1]
    /\ percentage[1] <= 100 * percentage[2]

\* C30: getPositionPercentage is within [0, 100] for every timestamp and is
\* 100 when the span is zero or the bounds are unset; with the bounds set,
\* getTimestampFromPercentage is within the bounds for every percentage.
C30_MappingsAreClamped ==
    LET t == dvr.tracker
    IN  /\ \A ts \in Instants \cup {0, FirstInstant + 1} :
              /\ InRange(getPositionPercentage(t, ts))
              /\ getBufferDuration(t) = 0 =>
                    getPositionPercentage(t, ts) = <<100, 1>>
        /\ (t.earliestAvailableTime # Null /\ t.latestAvailableTime # Null) =>
              \A p \in SamplePercentages :
                  /\ t.earliestAvailableTime <= getTimestampFromPercentage(t, p)
                  /\ getTimestampFromPercentage(t, p) <= t.latestAvailableTime

\* C21: a handleSeek with pct < 98 to a target at least 5 s behind live and
\* within the span of the native buffer sets the native player's currentTime
\* to bufferEnd - behind, inside the buffer; if the recording was being
\* watched it calls switchToLive first; it never calls switchToVod.
C21_InBufferSeeksNative ==
    [][ LET behind == dvr'.elapsed * 100 - dvr'.elapsed * dvr'.pct
            span == IF dvr.playerElement /\ Len(dvr.buffered) > 0
                    THEN dvr.buffered[2] - dvr.buffered[1] ELSE 0
        IN  (/\ "handleSeek" \in dvr'.calls
             /\ dvr'.pct < 98
             /\ behind >= 500
             /\ behind <= span) =>
                /\ dvr'.currentTime = dvr.buffered[2] - behind
                /\ dvr.buffered[1] <= dvr'.currentTime
                /\ dvr'.currentTime <= dvr.buffered[2]
                /\ dvr.isWatchingVod => "switchToLive" \in dvr'.calls
                /\ "switchToVod" \notin dvr'.calls
                /\ "initVodEmbed" \notin dvr'.calls
                /\ ~dvr'.isWatchingVod
                /\ dvr'.vodOverlay # "block" ]_vars

\* C21's case: E = 100 s, B = 80 s, pct = 50 while the recording was being
\* watched: back to live, then 50 s before the end of the buffer
C21_Witness ==
    /\ "handleSeek" \in dvr.calls
    /\ "switchToLive" \in dvr.calls
    /\ "seekInBuffer" \in dvr.calls
    /\ dvr.pct = 50
    /\ dvr.elapsed = 100
    /\ dvr.buffered = <<1000, 9000>>
    /\ dvr.currentTime = 4000

\* C22: a switchToVod that reused or created a player leaves isWatchingVod
\* true, the overlay shown and the native video muted, and does not touch
\* the native video's currentTime.
C22_SwitchToVodFrame ==
    [][ (/\ "initVodEmbed" \in dvr'.calls
         /\ \/ "vodPlayer.seek" \in dvr'.calls
            \/ "new Twitch.Embed" \in dvr'.calls
            \/ "createVodIframe" \in dvr'.calls) =>
            /\ dvr'.isWatchingVod
            /\ dvr'.vodOverlay = "block"
            /\ dvr'.videoInDom => dvr'.muted
            /\ dvr'.currentTime = dvr.currentTime ]_vars

\* C23: a tick of the 30 s timer while currentVodId is set issues no query.
C23_NoPollOnceResolved ==
    [][ ("vodRefreshTick" \in dvr'.calls /\ dvr.currentVodId # NoName) =>
            dvr'.pendingRefresh = dvr.pendingRefresh ]_vars

\* C23's case: the timer ticked in a session whose recording id is known
C23_Witness ==
    /\ "vodRefreshTick" \in dvr.calls
    /\ dvr.isActive
    /\ dvr.currentVodId # NoName
    /\ dvr.pendingRefresh = << >>

\* C31: with a clock that never goes back, the timestamps of the retained
\* segments never decrease along the list, and every step keeps the list in
\* the order of discovery: what is left of the earlier list, in its order,
\* followed by the segments discovered in this step.
C31_ListIsDiscoveryOrder ==
    [][ LET old == dvr.tracker.segments
            new == dvr'.tracker.segments
        IN  /\ now <= now'
            /\ \/ new = old
               \/ /\ \A i \in 1..(Len(new) - 1) :
                        new[i].timestamp <= new[i + 1].timestamp
                  /\ \E k \in 0..Len(old) :
                        /\ Len(old) - k <= Len(new)
                        /\ \A i \in 1..Len(new) :
                              IF i <= Len(old) - k THEN new[i] = old[k + i]
                              ELSE new[i].timestamp = now' ]_vars

\* C31's case: an insert has evicted the oldest segment and left one of an
\* earlier instant before the new one
C31_Witness ==
    /\ "addSegment" \in dvr.calls
    /\ dvr.evicted > 0
    /\ Len(dvr.tracker.segments) = 2
    /\ dvr.tracker.segments[1].timestamp < dvr.tracker.segments[2].timestamp

\* C36: from disable() until enable() is called no session is active.
C36_DisabledStaysIdle ==
    ~dvr.enabled => ~dvr.isActive

\* C33: while no session is active the recording is not being watched and
\* the overlay is not shown.
C33_WatchingOnlyWhileActive ==
    ~dvr.isActive => (~dvr.isWatchingVod /\ dvr.vodOverlay # "block")

\* C34: a recording id is held only in an active session and is the id of
\* the recording of that session's channel.
C34_RecordingOfCurrentChannel ==
    dvr.currentVodId # NoName =>
        /\ dvr.isActive
        /\ dvr.currentChannel \in Channels
        /\ dvr.currentVodId = VodOf(dvr.currentChannel)

\* C35: when no live-status query is in flight, an active session is for
\* the channel of the page the browser is on, and there is none on a page
\* that is not a channel.
C35_SessionFollowsNavigation ==
    dvr.pendingPage = << >> =>
        IF dvr.location \in Channels
        THEN dvr.isActive => dvr.currentChannel = dvr.location
        ELSE ~dvr.isActive

\* C37: while no session is active the native player is not muted.
C37_IdleIsUnmuted ==
    ~dvr.isActive => ~dvr.muted

\* C39: startDVR for the channel of the session that is already active
\* changes nothing: the channel, the stream start time, the recording id, the
\* tracker with its segments, the overlay and its player and the scheduled
\* timers are as before.
C39_SameChannelStartIsNoOp ==
    [][ (/\ "startDVR" \in dvr'.calls
         /\ dvr.isActive
         /\ \E i \in 1..Len(dvr.pendingPage) :
               /\ dvr.pendingPage[i] = dvr.currentChannel
               /\ dvr'.pendingPage = RemoveAt(dvr.pendingPage, i)) =>
            dvr' = [Begin(dvr) EXCEPT !.pendingPage = dvr'.pendingPage,
                                      !.calls = {"startDVR"}] ]_vars

\* C39's case: startDVR was called in a session that holds a recording id
\* and its timers, and did not start the tracker again
C39_Witness ==
    /\ dvr.calls = {"startDVR"}
    /\ dvr.isActive
    /\ dvr.tracker.emitted = << >>
    /\ dvr.currentVodId # NoName
    /\ dvr.vodRefreshInterval
    /\ dvr.updateInterval

\* C40: a waitForPlayer call that has not resolved yet is still polling.
C40_UnresolvedKeepsPolling ==
    \A i \in 1..Len(dvr.waits) :
        ~dvr.waits[i].resolved => dvr.waits[i].interval

\* C32: the position updateUI hands to ui.updateProgress is a number within
\* [0, 100], and isAtLive is not true together with isWatchingVod.
C32_SnapshotInRange ==
    "ui.updateProgress" \in dvr.calls =>
        /\ InRange(dvr.snapshot.position)
        /\ ~(dvr.snapshot.isAtLive /\ dvr.snapshot.isWatchingVod)

\* C38: handlePreview answers LIVE exactly when handleSeek with the same
\* percentage would run handleGoLive, and puts (VOD) after the time only when
\* handleSeek would call switchToVod.
C38_PreviewAgreesWithSeek ==
    [][ "handlePreview" \in dvr'.calls =>
            LET seek == handleSeek(Begin(dvr), dvr'.pct, dvr'.elapsed, FALSE)
            IN  /\ dvr'.label.text = "LIVE" <=> "handleGoLive" \in seek.calls
                /\ dvr'.label.vod => "switchToVod" \in seek.calls ]_vars

====
